---- MODULE Spec2Model ----
(***************************************************************************)
(* Model of app.py: the blacklist loader that runs at import time, the     *)
(* pattern detector, the password scorer and the request handler.          *)
(*                                                                         *)
(* A Python str is modelled as a sequence of one-character strings, so     *)
(* that indexing, slicing, len(), lower() and the `in` substring test are  *)
(* computed character by character as CPython computes them.  A feedback   *)
(* entry is modelled as the sequence of the pieces it is formatted from:   *)
(* a literal message is a one-piece sequence, and the f-string at line 74  *)
(* is the literal prefix, the characters of the sequence and the literal   *)
(* suffix.  The em dash (U+2014) of the messages at lines 94 and 110 is    *)
(* written "--" because the module is ASCII, and the grave accent of the   *)
(* symbol set (line 127) is written "grave" because the lexer cannot hold  *)
(* it in a string.                                                         *)
(***************************************************************************)
EXTENDS Integers, Sequences, FiniteSets, TLC

VARIABLES source,     \* the blacklist file: its condition and its lines
          pc,         \* "import", "serving", "aborted"; "call", "returned"
          raised,     \* the exception that aborted the import, or None
          warned,     \* the warning of line 18 has been logged
          BLACKLIST,  \* the module global of line 21
          request,    \* the request being handled: method and form field
          rendered,   \* index() has rendered the template for the request
          context,    \* score, category and feedback given to the template
          penalties   \* what apply_pattern_penalties returned to its caller

vars == <<source, pc, raised, warned, BLACKLIST,
          request, rendered, context, penalties>>

None == "None"

----------------------------------------------------------------------------
(* Characters and the str methods the program uses.                        *)

UpperLetters ==
  <<"A","B","C","D","E","F","G","H","I","J","K","L","M",
    "N","O","P","Q","R","S","T","U","V","W","X","Y","Z">>

LowerLetters ==
  <<"a","b","c","d","e","f","g","h","i","j","k","l","m",
    "n","o","p","q","r","s","t","u","v","w","x","y","z">>

DigitChars == {"0","1","2","3","4","5","6","7","8","9"}

Whitespace == {" ", "\t", "\n", "\r"}

UpperSet == {UpperLetters[i] : i \in 1..Len(UpperLetters)}

LowerSet == {LowerLetters[i] : i \in 1..Len(LowerLetters)}

ToLower == [c \in UpperSet |->
              LowerLetters[CHOOSE i \in 1..Len(UpperLetters) : UpperLetters[i] = c]]

isupper(c) == c \in UpperSet

islower(c) == c \in LowerSet

isdigit(c) == c \in DigitChars

lower_char(c) == IF c \in UpperSet THEN ToLower[c] ELSE c

lower(s) == [i \in 1..Len(s) |-> lower_char(s[i])]

RECURSIVE lstrip(_)
lstrip(s) ==
  IF s # <<>> /\ s[1] \in Whitespace THEN lstrip(Tail(s)) ELSE s

RECURSIVE rstrip(_)
rstrip(s) ==
  IF s # <<>> /\ s[Len(s)] \in Whitespace
    THEN rstrip(SubSeq(s, 1, Len(s) - 1))
    ELSE s

strip(s) == rstrip(lstrip(s))

(* Python's `sub in s` for strings.                                        *)
Contains(s, sub) ==
  \E i \in 0..(Len(s) - Len(sub)) : SubSeq(s, i + 1, i + Len(sub)) = sub

----------------------------------------------------------------------------
(* load_blacklist, lines 9-19.                                             *)

(* What open() and the iteration over the file do for each condition of    *)
(* the path: the exception they raise, or None.                            *)
OpenOutcome(src) ==
  CASE src.status = "absent"    -> "FileNotFoundError"
    [] src.status = "denied"    -> "PermissionError"
    [] src.status = "directory" -> "IsADirectoryError"
    [] src.status = "not_utf8"  -> "UnicodeDecodeError"
    [] OTHER                    -> None

RECURSIVE ReadLines(_, _)
ReadLines(lines, bad_password) ==
  IF lines = <<>> THEN bad_password
  ELSE LET password == lower(strip(Head(lines)))
       IN  ReadLines(Tail(lines),
                     IF password # <<>> THEN bad_password \cup {password}
                                        ELSE bad_password)

(* The except clause of line 17.                                           *)
Handled(exc) == exc = "FileNotFoundError"

(* Result of the call: the exception that leaves the function (or None),   *)
(* whether the warning of line 18 was logged, and the returned set.        *)
load_blacklist(src) ==
  LET exc == OpenOutcome(src)
  IN  IF exc = None
        THEN [raises |-> None, warning |-> FALSE,
              value |-> ReadLines(src.lines, {})]
      ELSE IF Handled(exc)
        THEN [raises |-> None, warning |-> TRUE, value |-> {}]
      ELSE [raises |-> exc, warning |-> FALSE, value |-> {}]

----------------------------------------------------------------------------
(* apply_pattern_penalties, lines 43-77.                                   *)

RepeatWarning == <<"Avoid using repeated characters (e.g., 'aaa' / '111').">>

EndDigitsWarning ==
  <<"Avoid ending with multiple digits (common predictable pattern).">>

sequences ==
  << <<"0","1","2","3">>, <<"1","2","3","4">>, <<"2","3","4","5">>,
     <<"3","4","5","6">>, <<"4","5","6","7">>, <<"5","6","7","8">>,
     <<"6","7","8","9">>,
     <<"a","b","c","d">>, <<"b","c","d","e">>, <<"c","d","e","f">>,
     <<"d","e","f","g">>, <<"e","f","g","h">>, <<"f","g","h","i">>,
     <<"g","h","i","j">>,
     <<"q","w","e","r","t","y">>, <<"a","s","d","f">>, <<"z","x","c","v">> >>

SequenceWarning(seq) ==
  <<"Avoid using a common sequence ('">> \o seq \o <<"').">>

(* Lines 48-52.                                                            *)
HasRepeat(password) ==
  \E i \in 1..(Len(password) - 2) :
     password[i] = password[i+1] /\ password[i+1] = password[i+2]

CountDigits_NoBreak(password) ==
  Cardinality({i \in 1..Len(password) : isdigit(password[i])})

(* Lines 56-61: the digits counted from the end up to the first non-digit. *)
RECURSIVE count_end_digits(_)
count_end_digits(password) ==
  IF password = <<>> THEN 0
  ELSE IF isdigit(password[Len(password)])
    THEN 1 + count_end_digits(SubSeq(password, 1, Len(password) - 1))
  ELSE 0

(* Lines 55-64.                                                            *)
EndsWithDigits(password) ==
  Len(password) >= 6 /\ count_end_digits(password) >= 2

FirstOccurrence(s, sub) ==
  CHOOSE i \in 0..(Len(s) - Len(sub)) :
    /\ SubSeq(s, i + 1, i + Len(sub)) = sub
    /\ \A j \in 0..(i - 1) : SubSeq(s, j + 1, j + Len(sub)) # sub

MatchedSequence_EarliestInPassword(password) ==
  LET low  == lower(password)
      hits == {j \in 1..Len(sequences) : Contains(low, sequences[j])}
  IN  IF hits = {} THEN <<>>
      ELSE sequences[CHOOSE j \in hits :
             \A k \in hits \ {j} :
                FirstOccurrence(low, sequences[j]) < FirstOccurrence(low, sequences[k])
                \/ (FirstOccurrence(low, sequences[j]) = FirstOccurrence(low, sequences[k])
                    /\ j < k)]

(* Lines 67-75: the pattern the loop stops at, <<>> when it runs to the    *)
(* end without a match.                                                    *)
MatchedSequence(password) ==
  LET low  == lower(password)
      hits == {j \in 1..Len(sequences) : Contains(low, sequences[j])}
  IN  IF hits = {} THEN <<>>
      ELSE sequences[CHOOSE j \in hits : \A k \in hits : j <= k]

apply_pattern_penalties(password) ==
  LET c1 == IF HasRepeat(password) THEN 1 ELSE 0
      w1 == IF HasRepeat(password) THEN <<RepeatWarning>> ELSE <<>>
      c2 == IF EndsWithDigits(password) THEN c1 + 1 ELSE c1
      w2 == IF EndsWithDigits(password) THEN Append(w1, EndDigitsWarning) ELSE w1
      seq == MatchedSequence(password)
      c3 == IF seq # <<>> THEN c2 + 1 ELSE c2
      w3 == IF seq # <<>> THEN Append(w2, SequenceWarning(seq)) ELSE w2
  IN  [count |-> c3, warnings |-> w3]

----------------------------------------------------------------------------
(* evaluate_password, lines 80-152.                                        *)

EmptyMsg == <<"Password cannot be empty.">>

TooShortMsg == <<"Password is too short -- use at least 6 characters.">>

BlacklistMsg == <<"This password is commonly used. Choose a different one.">>

LengthMsg == <<"Use 12+ characters -- longer is stronger.">>

UpperMsg == <<"Add an uppercase letter.">>

LowerMsg == <<"Add a lowercase letter.">>

DigitMsg == <<"Add a number.">>

SymbolMsg == <<"Add a symbol (like ! or #).">>

Hint16Msg == <<"Using 16+ characters would make this stronger.">>

Hint20Msg ==
  <<"You can try using a password with 20+ characters to reach strong.">>

symbols ==
  {"!","@","#","$","%","^","&","*","(",")","-","_","=","+","[","]","{","}",
   ";",":","'","\"",",",".","<",">","/","?","\\","|","grave","~"}

TooShort_OffByOne(password) == Len(password) < 5

(* Line 93.                                                                *)
TooShort(password) == Len(password) < 6

IsBlacklisted_CaseSensitive(password, blacklist) == password \in blacklist

(* Line 99.                                                                *)
IsBlacklisted(password, blacklist) == lower(password) \in blacklist

LengthBonus_OffByOne(password) ==
  IF Len(password) >= 19 THEN 3
  ELSE IF Len(password) >= 15 THEN 2
  ELSE IF Len(password) >= 11 THEN 1
  ELSE 0

(* Lines 103-108: the points given for the length.                         *)
LengthBonus(password) ==
  IF Len(password) >= 20 THEN 3
  ELSE IF Len(password) >= 16 THEN 2
  ELSE IF Len(password) >= 12 THEN 1
  ELSE 0

(* Line 112.                                                               *)
HasUpper(password) == \E i \in 1..Len(password) : isupper(password[i])

(* Line 117.                                                               *)
HasLower(password) == \E i \in 1..Len(password) : islower(password[i])

(* Line 122.                                                               *)
HasDigit(password) == \E i \in 1..Len(password) : isdigit(password[i])

(* Line 128.                                                               *)
HasSymbol(password) == \E i \in 1..Len(password) : password[i] \in symbols

SubtractPenalties_NoFloor(s, count) == s - count

(* Line 136.                                                               *)
SubtractPenalties(s, count) == IF s - count > 0 THEN s - count ELSE 0

CategoryOf_OffByOne(s) ==
  IF s <= 4 THEN "Weak" ELSE IF s <= 5 THEN "Okay" ELSE "Strong"

(* Lines 141-150: the category chosen for a score.                         *)
CategoryOf(s) ==
  IF s <= 3 THEN "Weak" ELSE IF s <= 5 THEN "Okay" ELSE "Strong"

OkayHint_BothAppended(password) ==
  (IF Len(password) < 16 THEN <<Hint16Msg>> ELSE <<>>)
    \o (IF Len(password) < 20 THEN <<Hint20Msg>> ELSE <<>>)

OkayHint_Omitted(password) == <<>>

(* Lines 145-148: what the Okay branch appends to the feedback.            *)
OkayHint(password) ==
  IF Len(password) < 16 THEN <<Hint16Msg>>
  ELSE IF Len(password) < 20 THEN <<Hint20Msg>>
  ELSE <<>>

evaluate_password(password, blacklist) ==
  IF password = <<>> THEN
    [score |-> 0, category |-> "Weak", feedback |-> <<EmptyMsg>>]
  ELSE IF TooShort(password) THEN
    [score |-> 0, category |-> "Weak", feedback |-> <<TooShortMsg>>]
  ELSE IF IsBlacklisted(password, blacklist) THEN
    [score |-> 0, category |-> "Weak", feedback |-> <<BlacklistMsg>>]
  ELSE
    LET s0 == LengthBonus(password)
        f0 == IF Len(password) >= 12 THEN <<>> ELSE <<LengthMsg>>
        s1 == IF HasUpper(password) THEN s0 + 1 ELSE s0
        f1 == IF HasUpper(password) THEN f0 ELSE Append(f0, UpperMsg)
        s2 == IF HasLower(password) THEN s1 + 1 ELSE s1
        f2 == IF HasLower(password) THEN f1 ELSE Append(f1, LowerMsg)
        s3 == IF HasDigit(password) THEN s2 + 1 ELSE s2
        f3 == IF HasDigit(password) THEN f2 ELSE Append(f2, DigitMsg)
        s4 == IF HasSymbol(password) THEN s3 + 1 ELSE s3
        f4 == IF HasSymbol(password) THEN f3 ELSE Append(f3, SymbolMsg)
        pp == apply_pattern_penalties(password)
        s5 == SubtractPenalties(s4, pp.count)
        f5 == f4 \o pp.warnings
        cat == CategoryOf(s5)
        f6 == IF cat = "Okay" THEN f5 \o OkayHint(password) ELSE f5
    IN  [score |-> s5, category |-> cat, feedback |-> f6]

----------------------------------------------------------------------------
(* Inputs.                                                                 *)

MaxFragments == 4

Fragments ==
  { <<"A">>, <<"a">>, <<"7">>, <<"!">>,
    <<"a","b","c","d">>, <<"1","2","3","4">>,
    <<"T","r","0","u","b","4","d","o","r","&","3">>,
    <<"X","X","X","X","X","X","X","X">>,
    <<"Q","w"," ","E","r">> }

RECURSIVE Join(_)
Join(fs) == IF fs = <<>> THEN <<>> ELSE Head(fs) \o Join(Tail(fs))

(* The passwords submitted: every concatenation of at most MaxFragments    *)
(* fragments.                                                              *)
Passwords ==
  {Join(fs) : fs \in UNION {[1..n -> Fragments] : n \in 0..MaxFragments}}

(* The lines of the blacklist file: " AA7! \n", "\n", "AaaBCD1234\n",      *)
(* "aaabcd1234\n", "abcd1234" (no final newline).                          *)
BlacklistLines ==
  << <<" ","A","A","7","!"," ","\n">>,
     <<"\n">>,
     <<"A","a","a","B","C","D","1","2","3","4","\n">>,
     <<"a","a","a","b","c","d","1","2","3","4","\n">>,
     <<"a","b","c","d","1","2","3","4">> >>

Sources ==
  { [status |-> "absent",    lines |-> <<>>],
    [status |-> "denied",    lines |-> BlacklistLines],
    [status |-> "directory", lines |-> <<>>],
    [status |-> "not_utf8",  lines |-> BlacklistLines],
    [status |-> "readable",  lines |-> BlacklistLines] }

NoRequest == [method |-> None, password |-> <<>>]

(* Lines 156-158: the locals of index() before a POST is evaluated.        *)
NoContext == [score |-> None, category |-> None, feedback |-> <<>>]

----------------------------------------------------------------------------
(* The program: import of the module, then requests.                       *)

Init ==
  /\ source \in Sources
  /\ pc = "import"
  /\ raised = None
  /\ warned = FALSE
  /\ BLACKLIST = {}
  /\ request = NoRequest
  /\ rendered = FALSE
  /\ context = NoContext
  /\ penalties = None

(* Line 21: BLACKLIST = load_blacklist() at import.  An exception that     *)
(* leaves load_blacklist aborts the import.                                *)
LoadBlacklist ==
  /\ pc = "import"
  /\ LET r == load_blacklist(source)
     IN  /\ raised' = r.raises
         /\ warned' = r.warning
         /\ BLACKLIST' = r.value
         /\ pc' = IF r.raises = None THEN "serving" ELSE "aborted"
  /\ UNCHANGED <<source, request, rendered, context, penalties>>

(* A client sends GET / or POSTs the form (line 154).                      *)
Submit ==
  /\ pc = "serving"
  /\ request = NoRequest
  /\ \/ request' = [method |-> "GET", password |-> <<>>]
     \/ \E p \in Passwords : request' = [method |-> "POST", password |-> p]
  /\ UNCHANGED <<source, pc, raised, warned, BLACKLIST,
                 rendered, context, penalties>>

(* index(), lines 155-164.                                                 *)
index ==
  /\ pc = "serving"
  /\ request # NoRequest
  /\ ~rendered
  /\ context' = IF request.method = "POST"
                  THEN evaluate_password(request.password, BLACKLIST)
                  ELSE NoContext
  /\ rendered' = TRUE
  /\ UNCHANGED <<source, pc, raised, warned, BLACKLIST, request, penalties>>

(* The response has been sent; the handler's locals are gone.              *)
Finish ==
  /\ pc = "serving"
  /\ rendered
  /\ request' = NoRequest
  /\ rendered' = FALSE
  /\ context' = NoContext
  /\ UNCHANGED <<source, pc, raised, warned, BLACKLIST, penalties>>

Next == LoadBlacklist \/ Submit \/ index \/ Finish

Spec == Init /\ [][Next]_vars

----------------------------------------------------------------------------
(* apply_pattern_penalties on its own: a caller passes it any string.      *)

InitDetect ==
  /\ source = [status |-> "absent", lines |-> <<>>]
  /\ pc = "call"
  /\ raised = None
  /\ warned = FALSE
  /\ BLACKLIST = {}
  /\ request \in {[method |-> "CALL", password |-> p] : p \in Passwords}
  /\ rendered = FALSE
  /\ context = NoContext
  /\ penalties = None

Detect ==
  /\ pc = "call"
  /\ penalties' = apply_pattern_penalties(request.password)
  /\ pc' = "returned"
  /\ UNCHANGED <<source, raised, warned, BLACKLIST, request, rendered, context>>

NextDetect == Detect

SpecDetect == InitDetect /\ [][NextDetect]_vars

----------------------------------------------------------------------------
(* Properties.  They are stated over the request and the rendered context, *)
(* with the character tests spelled out again from the text of the claims. *)

(* index() has evaluated a submitted password and holds its result.        *)
Evaluated == pc = "serving" /\ rendered /\ request.method = "POST"

Returned == pc = "returned"

pw == request.password

Rejected(msg) == [score |-> 0, category |-> "Weak", feedback |-> <<msg>>]

InFeedback(msg) == \E i \in 1..Len(context.feedback) : context.feedback[i] = msg

HasUpperIn(s) == \E i \in 1..Len(s) : s[i] \in UpperSet

HasLowerIn(s) == \E i \in 1..Len(s) : s[i] \in LowerSet

HasDigitIn(s) == \E i \in 1..Len(s) : s[i] \in DigitChars

HasSymbolIn(s) == \E i \in 1..Len(s) : s[i] \in symbols

TripleIn(s) == \E i \in 1..(Len(s) - 2) : s[i] = s[i+1] /\ s[i] = s[i+2]

TwoTrailingDigits(s) ==
  Len(s) >= 6 /\ s[Len(s)] \in DigitChars /\ s[Len(s) - 1] \in DigitChars

OccursAt(s, sub, i) ==
  i + Len(sub) - 1 <= Len(s) /\ SubSeq(s, i, i + Len(sub) - 1) = sub

Occurs(s, sub) == \E i \in 1..Len(s) : OccursAt(s, sub, i)

SomeSequenceIn(s) == \E j \in 1..Len(sequences) : Occurs(lower(s), sequences[j])

IsSequenceWarning(w) == Len(w) > 2 /\ w[1] = "Avoid using a common sequence ('"

Tr0ub4dor ==
  <<"T","r","0","u","b","4","d","o","r","&","3",
    "X","X","X","X","X","X","X","X">>

(* C1, as claimed: a password whose lowercase form is in the blacklist is  *)
(* rejected with exactly the commonly-used message, whatever its length.   *)
C1_BlacklistedAnyLength ==
  (Evaluated /\ lower(pw) \in BLACKLIST) => context = Rejected(BlacklistMsg)

(* C1, amended: a password of at least 6 characters whose lowercase form   *)
(* is in the blacklist is rejected with exactly the commonly-used message, *)
(* whatever its character classes.                                         *)
C1_BlacklistedLongEnough ==
  (Evaluated /\ Len(pw) >= 6 /\ lower(pw) \in BLACKLIST)
    => context = Rejected(BlacklistMsg)

C1_Witness ==
  /\ Evaluated
  /\ Len(pw) >= 6
  /\ HasUpperIn(pw)
  /\ lower(pw) \in BLACKLIST
  /\ context.feedback = <<BlacklistMsg>>

(* C2: the score of every evaluated password is an integer from 0 to 7,    *)
(* also when the penalties exceed the points.                              *)
C2_ScoreInRange == Evaluated => context.score \in 0..7

(* "123477": one point (digit), two penalties (trailing digits, sequence). *)
C2_Witness ==
  /\ Evaluated
  /\ pw = <<"1","2","3","4","7","7">>
  /\ lower(pw) \notin BLACKLIST
  /\ InFeedback(EndDigitsWarning)
  /\ \E i \in 1..Len(context.feedback) : IsSequenceWarning(context.feedback[i])
  /\ context.score = 0

(* C3: on every return path the category is Weak exactly for a score of at *)
(* most 3, Okay exactly for 4 or 5, Strong exactly for 6 or more.          *)
C3_CategoryFromScore ==
  Evaluated =>
    /\ context.category \in {"Weak", "Okay", "Strong"}
    /\ (context.category = "Weak") <=> (context.score <= 3)
    /\ (context.category = "Okay") <=> (context.score \in {4, 5})
    /\ (context.category = "Strong") <=> (context.score >= 6)

C3_Witness == Evaluated /\ context.score = 4 /\ context.category = "Okay"

(* C4: a non-empty password of fewer than 6 characters is rejected with    *)
(* exactly the too-short message, whatever the blacklist holds.            *)
C4_TooShort ==
  (Evaluated /\ pw # <<>> /\ Len(pw) < 6) => context = Rejected(TooShortMsg)

C4_Witness ==
  /\ Evaluated
  /\ Len(pw) = 5
  /\ BLACKLIST # {}
  /\ context = Rejected(TooShortMsg)

(* C5, as claimed: "Tr0ub4dor&3XXXXXXXX", not blacklisted, scores 7, is    *)
(* Strong and gets no feedback.                                            *)
C5_Tr0ub4dorStrong ==
  (Evaluated /\ pw = Tr0ub4dor /\ lower(pw) \notin BLACKLIST)
    => context = [score |-> 7, category |-> "Strong", feedback |-> <<>>]

(* C5, amended: "Tr0ub4dor&3XXXXXXXX" has 19 characters and a run of one   *)
(* character; not blacklisted, it scores 5 (2 for the length, 4 for the    *)
(* classes, less 1 for the repetition), is Okay, and its feedback is the   *)
(* repetition warning followed by the 20+ hint.                            *)
C5_Tr0ub4dorOkay ==
  (Evaluated /\ pw = Tr0ub4dor /\ lower(pw) \notin BLACKLIST)
    => context = [score |-> 5, category |-> "Okay",
                  feedback |-> <<RepeatWarning, Hint20Msg>>]

C5_Witness ==
  /\ Evaluated
  /\ pw = Tr0ub4dor
  /\ Len(pw) = 19
  /\ lower(pw) \notin BLACKLIST
  /\ context.score = 5

(* C6: load_blacklist never raises; when the source is absent or cannot be *)
(* read it logs a warning and returns the empty set, and the import goes   *)
(* on.                                                                     *)
C6_LoadNeverRaises ==
  (pc # "import" /\ source.status # "readable")
    => (raised = None /\ warned /\ BLACKLIST = {} /\ pc = "serving")

(* C7: apply_pattern_penalties returns a count from 0 to 3 that is the     *)
(* number of its warnings; each check gives one warning exactly when it    *)
(* matches; the warnings come in the order repetition, trailing digits,    *)
(* sequence; and the sequence warning names the first pattern of the list  *)
(* that occurs in the lowercased password.                                 *)
C7_PenaltiesAndWarnings ==
  Returned =>
    LET w == penalties.warnings
        n == Len(w)
        Pos(P(_)) == {i \in 1..n : P(w[i])}
        IsRepeat(x) == x = RepeatWarning
        IsEndDigits(x) == x = EndDigitsWarning
    IN  /\ penalties.count \in 0..3
        /\ penalties.count = n
        /\ Cardinality(Pos(IsRepeat)) = (IF TripleIn(pw) THEN 1 ELSE 0)
        /\ Cardinality(Pos(IsEndDigits)) = (IF TwoTrailingDigits(pw) THEN 1 ELSE 0)
        /\ Cardinality(Pos(IsSequenceWarning)) = (IF SomeSequenceIn(pw) THEN 1 ELSE 0)
        /\ \A i \in 1..n : IsRepeat(w[i]) \/ IsEndDigits(w[i]) \/ IsSequenceWarning(w[i])
        /\ \A i, j \in 1..n :
             i < j => /\ ~IsRepeat(w[j])
                      /\ ~IsSequenceWarning(w[i])
        /\ \A i \in Pos(IsSequenceWarning) :
             \E j \in 1..Len(sequences) :
                /\ w[i] = SequenceWarning(sequences[j])
                /\ Occurs(lower(pw), sequences[j])
                /\ \A k \in 1..(j - 1) : ~Occurs(lower(pw), sequences[k])

(* All three checks match, and the pattern named ("1234") occurs in the    *)
(* password after another pattern ("abcd") that comes later in the list.   *)
C7_Witness ==
  /\ Returned
  /\ penalties.count = 3
  /\ penalties.warnings[3] = SequenceWarning(<<"1","2","3","4">>)
  /\ \E i, j \in 1..Len(pw) :
        /\ i < j
        /\ OccursAt(lower(pw), <<"a","b","c","d">>, i)
        /\ OccursAt(lower(pw), <<"1","2","3","4">>, j)
        /\ \A k \in 1..i : ~OccursAt(lower(pw), <<"1","2","3","4">>, k)

(* The place of a feedback entry in the fixed order, 0 for an entry that   *)
(* is not in it.                                                           *)
Rank(entry) ==
  CASE entry = LengthMsg           -> 1
    [] entry = UpperMsg            -> 2
    [] entry = LowerMsg            -> 3
    [] entry = DigitMsg            -> 4
    [] entry = SymbolMsg           -> 5
    [] entry = RepeatWarning       -> 6
    [] entry = EndDigitsWarning    -> 7
    [] IsSequenceWarning(entry)    -> 8
    [] entry \in {Hint16Msg, Hint20Msg} -> 9
    [] OTHER                       -> 0

(* C8: for a password of at least 6 characters that is not blacklisted the *)
(* feedback follows the fixed order without repeats, ends with at most one *)
(* Okay hint, which is there only for category Okay: the 16+ hint exactly  *)
(* below 16 characters, the 20+ hint exactly from 16 to 19, none from 20.  *)
C8_FeedbackOrder ==
  (Evaluated /\ Len(pw) >= 6 /\ lower(pw) \notin BLACKLIST) =>
    LET f == context.feedback
        okay == context.category = "Okay"
    IN  /\ \A i \in 1..Len(f) : Rank(f[i]) > 0
        /\ \A i, j \in 1..Len(f) : i < j => Rank(f[i]) < Rank(f[j])
        /\ InFeedback(Hint16Msg) <=> (okay /\ Len(pw) < 16)
        /\ InFeedback(Hint20Msg) <=> (okay /\ Len(pw) >= 16 /\ Len(pw) < 20)

C8_Witness ==
  /\ Evaluated
  /\ lower(pw) \notin BLACKLIST
  /\ Len(pw) >= 16 /\ Len(pw) < 20
  /\ context.category = "Okay"
  /\ Len(context.feedback) >= 3
  /\ context.feedback[Len(context.feedback)] = Hint20Msg

(* C9: Weak and Okay always come with feedback; an empty feedback list     *)
(* comes only with Strong, score 6 or 7.                                   *)
C9_FeedbackUnlessStrong ==
  Evaluated =>
    /\ context.category \in {"Weak", "Okay"} => context.feedback # <<>>
    /\ context.feedback = <<>> =>
         (context.category = "Strong" /\ context.score \in {6, 7})

(* An Okay password that lacks nothing: the hint is its only feedback.     *)
C9_Witness ==
  /\ Evaluated
  /\ context.category = "Okay"
  /\ context.feedback = <<Hint16Msg>>

(* C10: below 12 characters the score is at most 4, below 16 at most 5 and *)
(* the category never Strong; score 7 needs 20 characters, all four        *)
(* character classes and no pattern.                                       *)
C10_LengthBoundsScore ==
  Evaluated =>
    /\ Len(pw) < 12 => context.score <= 4
    /\ Len(pw) < 16 => (context.score <= 5 /\ context.category # "Strong")
    /\ context.score = 7 =>
         /\ Len(pw) >= 20
         /\ HasUpperIn(pw) /\ HasLowerIn(pw) /\ HasDigitIn(pw) /\ HasSymbolIn(pw)
         /\ ~TripleIn(pw) /\ ~TwoTrailingDigits(pw) /\ ~SomeSequenceIn(pw)

C10_Witness ==
  /\ Evaluated
  /\ Len(pw) = 11
  /\ context.score = 4
  /\ context.feedback = <<LengthMsg, Hint16Msg>>
====
